---- MODULE Spec2Model ----
(***************************************************************************)
(* The request-processing core of the API gateway                          *)
(* (services/ApiGateway): the gin middleware chain, the fixed-window rate  *)
(* limiter, the translation of backend failures and the process lifecycle. *)
(*                                                                         *)
(* The specifications share the variables:                                 *)
(*   Spec      one request at a time through the whole chain, with the     *)
(*             limiter's two locked sections, the sweep, the clock, the    *)
(*             client's cancellation, the request deadline and panics;     *)
(*   SpecRL    concurrent admission checks and the sweep on the visitor    *)
(*             map;                                                        *)
(*   SpecErr   writeJSONErrorFromGRPC applied to every backend failure;    *)
(*   SpecOrders  the request OrderHandler.ListOrders sends;                *)
(*   SpecLife  main(): the listener, the termination signal, Shutdown,     *)
(*             the sweep goroutine (SpecLifeFair: with fair scheduling).   *)
(***************************************************************************)
EXTENDS Integers, Sequences, FiniteSets, TLC

\* ------------------------------------------------------------------ bounds
\* the clock runs from 0 to MaxTime
MaxTime == 2
\* cfg.RateLimitRequests is drawn from 0..MaxLimit, cfg.RateLimitWindow from 0..MaxWindow
MaxLimit == 2
MaxWindow == 1
\* SpecRL: the number of requests in their admission check at the same time
NumProcs == 2
\* SpecLife: the number of requests that arrive while the process lives
NumConns == 2
\* the longest list of allowed origins
MaxOrigins == 2

\* the drain timeout of main.go, in seconds
DrainTimeout == 30

\* ------------------------------------------------------------------ state
VARIABLES
    now,        \* time.Now()
    requests,   \* RateLimiter.requests
    window,     \* RateLimiter.window
    visitors,   \* RateLimiter.visitors: client key -> *visitor (0 = no entry)
    store,      \* the visitor structs the pointers refer to
    c,          \* the gin.Context of the request being served (Spec)
    winStart,   \* per key: when the window of the record last used began
    winAdmits,  \* per key: checks admitted since winStart
    procs,      \* the requests in their admission check (SpecRL)
    admitted,   \* per key: checks admitted since the window start of the
                \* record the map holds for the key (SpecRL)
    shadow,     \* per key: the record of the same limiter run without any
                \* sweep, and the time of the key's last request (SpecRL)
    report,     \* a call of writeJSONErrorFromGRPC (SpecErr)
    listing,    \* a call of OrderHandler.ListOrders (SpecOrders)
    cors,       \* the origin check of a request in middleware.CORS (SpecCORS)
    main,       \* where main() stands (SpecLife)
    server,     \* the goroutine running server.ListenAndServe
    quit,       \* the signals buffered in the channel quit
    signaled,   \* a termination signal has reached the process
    drain,      \* seconds since server.Shutdown was called
    forced,     \* server.Shutdown returned an error
    conns,      \* the requests the listener may accept
    sweeper     \* the goroutine running RateLimiter.cleanup

limiterVars == <<now, requests, window, visitors, store>>
pipeVars == <<c, winStart, winAdmits>>
rlVars == <<procs, admitted, shadow>>
errVars == <<report, listing, cors>>
lifeVars == <<main, server, quit, signaled, drain, forced, conns, sweeper>>
\* what the requests of Spec never touch
foreignVars == <<rlVars, errVars, lifeVars>>
ghostVars == <<winStart, winAdmits, foreignVars>>
vars == <<limiterVars, pipeVars, rlVars, errVars, lifeVars>>

\* ------------------------------------------------------- net/http statuses
StatusOK == 200
StatusCreated == 201
StatusNoContent == 204
StatusBadRequest == 400
StatusUnauthorized == 401
StatusForbidden == 403
StatusNotFound == 404
StatusRequestTimeout == 408
StatusConflict == 409
StatusTooManyRequests == 429
StatusInternalServerError == 500
StatusNotImplemented == 501
StatusServiceUnavailable == 503
StatusGatewayTimeout == 504

\* ------------------------------------------------------------ rate limiter
\* c.ClientIP(): the client keys
ClientIPs == {"10.0.0.1", "10.0.0.2"}

\* Spec serves the requests of one client, one after another
Client == "10.0.0.1"

\* one visitor struct per map entry, and one more for each running check, which
\* may still hold a struct after the sweep has deleted its entry
VisitorIds == 1..(Cardinality(ClientIPs) + NumProcs)

\* a struct nobody refers to any more
NoVisitor == [lastSeen |-> 0, count |-> 0]

\* the structs reachable from the map or from the running checks (held)
Referenced(vis, held) == {vis[ip] : ip \in ClientIPs} \cup held

\* garbage collection: forget the structs nobody refers to
Collect(st, vis, held) ==
    [i \in VisitorIds |-> IF i \in Referenced(vis, held) THEN st[i] ELSE NoVisitor]

\* &visitor{...}: a fresh struct
NewVisitor(held) ==
    CHOOSE i \in VisitorIds \ Referenced(visitors, held) :
        \A j \in VisitorIds \ Referenced(visitors, held) : i <= j

\* RateLimiter.getVisitor, one locked section: the entry of ip, created with
\* lastSeen = now and count = 0 when the map has none
getVisitor(ip, held) ==
    IF visitors[ip] # 0
    THEN [v |-> visitors[ip], visitors |-> visitors, store |-> store, created |-> FALSE]
    ELSE [v |-> NewVisitor(held),
          visitors |-> [visitors EXCEPT ![ip] = NewVisitor(held)],
          store |-> [store EXCEPT ![NewVisitor(held)] = [lastSeen |-> now, count |-> 0]],
          created |-> TRUE]

\* time.Since(v.lastSeen) > rl.window
WindowPassed(rec) == now - rec.lastSeen > window

\* a limit test that lets one request too many through
LimitExceededStrict(rec) == rec.count > requests

\* v.count >= rl.requests
LimitExceeded(rec) == rec.count >= requests

\* the reset of lines 149-152
ResetIfPassed(rec) ==
    IF WindowPassed(rec) THEN [lastSeen |-> now, count |-> 0] ELSE rec

\* a second locked section that counts the requests it rejects as well
admissionCounting(v) ==
    LET r == ResetIfPassed(store[v])
    IN  [admit |-> ~LimitExceeded(r), reset |-> WindowPassed(store[v]),
         store |-> [store EXCEPT ![v] = [r EXCEPT !.count = @ + 1]]]

\* the second locked section of RateLimiter.Middleware on the struct v:
\* reset when the window has passed, reject at the limit, count otherwise
admission(v) ==
    LET r == ResetIfPassed(store[v])
    IN  IF LimitExceeded(r)
        THEN [admit |-> FALSE, reset |-> WindowPassed(store[v]),
              store |-> [store EXCEPT ![v] = r]]
        ELSE [admit |-> TRUE, reset |-> WindowPassed(store[v]),
              store |-> [store EXCEPT ![v] = [r EXCEPT !.count = @ + 1]]]

\* one pass of the loop body of RateLimiter.cleanup, under the lock: delete
\* every entry whose lastSeen is more than a window old
cleanup ==
    [ip \in ClientIPs |->
        IF visitors[ip] # 0 /\ WindowPassed(store[visitors[ip]]) THEN 0 ELSE visitors[ip]]

\* the limiter without its sweep, run on the same requests: a key's record is
\* created by its first request and stays in the map
NoShadow == [has |-> FALSE, rec |-> NoVisitor, lastReq |-> -1]

\* getVisitor of the limiter without sweep
RefGetVisitor(ip) ==
    [has |-> TRUE,
     rec |-> IF shadow[ip].has THEN shadow[ip].rec ELSE [lastSeen |-> now, count |-> 0],
     lastReq |-> now]

\* the second locked section of the limiter without sweep
RefAdmission(ip) ==
    LET r == ResetIfPassed(shadow[ip].rec)
    IN  IF LimitExceeded(r)
        THEN [admit |-> FALSE,
              shadow |-> [shadow[ip] EXCEPT !.rec = r, !.lastReq = now]]
        ELSE [admit |-> TRUE,
              shadow |-> [shadow[ip] EXCEPT !.rec = [r EXCEPT !.count = @ + 1],
                                            !.lastReq = now]]

\* --------------------------------------------------------------------- gin
\* Router.setupMiddleware: the global chain, in the order of the Use calls
Middlewares ==
    <<"CORS", "Recovery", "RequestID", "Logger", "Cancellation", "Timeout", "RateLimiter">>

\* Router.setupRoutes: one route of each shape (auth level, handler): calls is
\* the number of remote calls the handler makes on its longest path, default
\* the status it passes to writeJSONErrorFromGRPC, success the status it sends
Routes ==
    { [path |-> "/health", auth |-> "none", handler |-> "healthCheck",
       calls |-> 0, default |-> StatusOK, success |-> StatusOK],
      [path |-> "/api/v1/products/by-id", auth |-> "none", handler |-> "GetProductByID",
       calls |-> 1, default |-> StatusNotFound, success |-> StatusOK],
      [path |-> "/api/v1/users/profile", auth |-> "auth", handler |-> "GetProfile",
       calls |-> 1, default |-> StatusNotFound, success |-> StatusOK],
      [path |-> "/api/v1/addresses/delete", auth |-> "auth", handler |-> "DeleteAddress",
       calls |-> 2, default |-> StatusInternalServerError, success |-> StatusOK],
      [path |-> "/api/v1/products/create", auth |-> "role", handler |-> "CreateProduct",
       calls |-> 1, default |-> StatusInternalServerError, success |-> StatusCreated] }

\* withRole("admin")
AllowedRoles == {"admin"}

\* the handlers of a route after the global chain: r.withAuth(), r.withRole(...)
RouteChain(route) ==
    CASE route.auth = "none" -> <<"Handler">>
      [] route.auth = "auth" -> <<"Auth", "Handler">>
      [] route.auth = "role" -> <<"Auth", "Role", "Handler">>

\* c.handlers
Handlers(cx) == Middlewares \o RouteChain(cx.route)

\* the stages that run code after c.Next() returns
PostStages == {"Logger", "Cancellation", "Timeout"}

\* c.Writer.Header().Set(name, ...)
SetHeader(cx, name) == [cx EXCEPT !.hdrs = @ \cup {name}]

\* responseWriter.WriteHeader: the status is kept unless the header is written
WriteHeader(cx, code) ==
    IF code > 0 /\ cx.w.status # code /\ ~cx.w.written
    THEN [cx EXCEPT !.w.status = code]
    ELSE cx

\* responseWriter.WriteHeaderNow: the status line and the header map go out once
WriteHeaderNow(cx) ==
    IF cx.w.written
    THEN cx
    ELSE [cx EXCEPT !.w.written = TRUE, !.w.sent = cx.w.status,
                    !.w.requestID = cx.header, !.w.hdrs = cx.hdrs]

\* responseWriter.Write: the header first, then the bytes are appended
Write(cx, data) ==
    [WriteHeaderNow(cx) EXCEPT !.w.body = Append(@, data)]

\* c.JSON(code, obj)
JSON(cx, code, message) ==
    Write(WriteHeader(SetHeader(cx, "Content-Type"), code),
          [code |-> code, message |-> message])

\* c.Abort()
Abort(cx) == [cx EXCEPT !.aborted = TRUE]

\* c.AbortWithStatus(code)
AbortWithStatus(cx, code) == Abort(WriteHeaderNow(WriteHeader(cx, code)))

\* c.AbortWithStatusJSON(code, obj)
AbortWithStatusJSON(cx, code, message) == JSON(Abort(cx), code, message)

\* an error answer that forgets to abort the chain
writeJSONErrorNoAbort(cx, statusCode, message) == JSON(cx, statusCode, message)

\* middleware.writeJSONError
writeJSONError(cx, statusCode, message) == AbortWithStatusJSON(cx, statusCode, message)

\* handlers.writeJSONError and handlers.writeJSON on c.Writer: WriteHeader, then
\* the encoder's Write
handlersWriteJSON(cx, statusCode, message) ==
    Write(WriteHeader(SetHeader(cx, "Content-Type"), statusCode),
          [code |-> statusCode, message |-> message])

\* the loop of c.Next() after a handler function has returned: the next handler
\* of the chain unless the context is aborted, else the return into the stage
\* that called Next (its code after Next, if it has any), else the end of
\* ServeHTTP, which flushes the header
RECURSIVE Return(_)
Return(cx) ==
    IF ~cx.aborted /\ cx.index < Len(Handlers(cx))
    THEN [cx EXCEPT !.index = @ + 1, !.pc = "pre"]
    ELSE IF cx.stack = <<>>
    THEN [WriteHeaderNow(cx) EXCEPT !.pc = "done"]
    ELSE IF Head(cx.stack) \in PostStages
    THEN [cx EXCEPT !.pc = "post"]
    ELSE Return([cx EXCEPT !.stack = Tail(@)])

\* a stage calls c.Next(): it waits for the rest of the chain
Next_(cx, stage) == Return([cx EXCEPT !.stack = <<stage>> \o @])

\* the stage whose function is entered next
Stage(cx) == Handlers(cx)[cx.index]

\* the entry into a stage's function
Enter(cx, stage) == [cx EXCEPT !.ran = Append(@, stage)]

\* the requests of SpecRL and the structs their checks hold
Procs == 1..NumProcs

Held == {procs[p].v : p \in Procs}

IdleProc == [pc |-> "idle", ip |-> Client, v |-> 0, out |-> "none"]

\* ------------------------------------------------------------ the request
\* the Authorization header before AuthMiddleware has read it
NotRead == <<"(not read)">>

\* a gin.Context before a request is bound to it
FreshContext ==
    [pc |-> "idle",
     method |-> "", route |-> CHOOSE r \in Routes : r.handler = "healthCheck",
     index |-> 0, aborted |-> FALSE,
     stack |-> <<>>,          \* the stages waiting in c.Next(), innermost first
     ran |-> <<>>,            \* the stages entered so far, in order
     header |-> "",           \* c.Writer.Header()["X-Request-ID"]
     hdrs |-> {},             \* the names set in c.Writer.Header()
     w |-> [written |-> FALSE, status |-> StatusOK, sent |-> 0,
            requestID |-> "", hdrs |-> {}, body |-> <<>>],
     reqCtx |-> "nil",        \* Err() of the context the server gave the request
     tctx |-> "none",         \* Err() of the context made by Timeout
     inCall |-> FALSE,        \* the deadline fired while a remote call was blocked
     authHeader |-> NotRead, claims |-> <<>>,
     ip |-> "", v |-> 0,
     rl |-> "none",           \* the limiter's decision on this request
     start |-> 0, prior |-> 0,
     calls |-> 0,
     panicked |-> FALSE, wroteBeforePanic |-> FALSE,
     log |-> <<>>]            \* the statuses logger.Infof was given by Logger

Methods == {"GET", "OPTIONS"}

\* the server hands a request to the engine
Accept ==
    /\ c.pc \in {"idle", "done"}
    /\ \E m \in Methods, r \in Routes :
        c' = [FreshContext EXCEPT !.pc = "pre", !.index = 1, !.method = m, !.route = r]
    /\ UNCHANGED <<limiterVars, ghostVars>>

AtStage(stage) == c.pc = "pre" /\ Stage(c) = stage

AfterNext(stage) == c.pc = "post" /\ Head(c.stack) = stage

\* the return from c.Next() into the stage on top of the stack
Resume(cx) == [cx EXCEPT !.stack = Tail(@)]

\* the headers middleware.CORS sets on every response
CORSHeaders ==
    { "Access-Control-Allow-Origin", "Access-Control-Allow-Methods",
      "Access-Control-Allow-Headers", "Access-Control-Allow-Credentials",
      "Access-Control-Max-Age" }

\* a CORS stage that passes preflight requests on like any other request
CORSPassesPreflight ==
    /\ AtStage("CORS")
    /\ c' = Next_([Enter(c, "CORS") EXCEPT !.hdrs = @ \cup CORSHeaders], "CORS")
    /\ UNCHANGED <<limiterVars, ghostVars>>

\* middleware.CORS
CORS ==
    /\ AtStage("CORS")
    /\ LET cx == [Enter(c, "CORS") EXCEPT !.hdrs = @ \cup CORSHeaders]
       IN  c' = IF c.method = "OPTIONS"
                THEN Return(AbortWithStatus(cx, StatusNoContent))
                ELSE Next_(cx, "CORS")
    /\ UNCHANGED <<limiterVars, ghostVars>>

\* middleware.Recovery: the deferred function is RecoveryDefer
Recovery ==
    /\ AtStage("Recovery")
    /\ c' = Next_(Enter(c, "Recovery"), "Recovery")
    /\ UNCHANGED <<limiterVars, ghostVars>>

\* the X-Request-ID values a client sends: none, or one of its own
RequestIDs == {"", "client-id"}

\* middleware.RequestID
RequestID ==
    /\ AtStage("RequestID")
    /\ \E id \in RequestIDs :
        c' = Next_([SetHeader(Enter(c, "RequestID"), "X-Request-ID") EXCEPT
                        !.header = IF id = "" THEN "uuid" ELSE id], "RequestID")
    /\ UNCHANGED <<limiterVars, ghostVars>>

\* middleware.Logger, up to c.Next()
Logger ==
    /\ AtStage("Logger")
    /\ c' = Next_(Enter(c, "Logger"), "Logger")
    /\ UNCHANGED <<limiterVars, ghostVars>>

\* middleware.Logger, after c.Next(): logger.Infof with c.Writer.Status()
LoggerPost ==
    /\ AfterNext("Logger")
    /\ c' = Return([Resume(c) EXCEPT !.log = Append(@, c.w.status)])
    /\ UNCHANGED <<limiterVars, ghostVars>>

\* middleware.Cancellation, up to c.Next()
Cancellation ==
    /\ AtStage("Cancellation")
    /\ c' = IF c.reqCtx # "nil"
            THEN Return(writeJSONError(Enter(c, "Cancellation"),
                                       StatusServiceUnavailable, "request canceled"))
            ELSE Next_(Enter(c, "Cancellation"), "Cancellation")
    /\ UNCHANGED <<limiterVars, ghostVars>>

\* middleware.Cancellation, after c.Next(): ctx is the context read at line 13
CancellationPost ==
    /\ AfterNext("Cancellation")
    /\ c' = IF c.reqCtx # "nil" /\ ~c.w.written
            THEN Return(writeJSONError(Resume(c),
                            IF c.reqCtx = "DeadlineExceeded"
                            THEN StatusGatewayTimeout ELSE StatusServiceUnavailable,
                            "request canceled"))
            ELSE Return(Resume(c))
    /\ UNCHANGED <<limiterVars, ghostVars>>

\* context.WithTimeout(parent): a child of a cancelled parent is cancelled
WithTimeout(parent) == IF parent = "nil" THEN "nil" ELSE parent

\* the deferred cancel() of Timeout
Cancel(cx) == [cx EXCEPT !.tctx = IF @ = "nil" THEN "Canceled" ELSE @]

\* middleware.Timeout, up to c.Next()
Timeout ==
    /\ AtStage("Timeout")
    /\ c' = Next_([Enter(c, "Timeout") EXCEPT !.tctx = WithTimeout(c.reqCtx)], "Timeout")
    /\ UNCHANGED <<limiterVars, ghostVars>>

\* a Timeout stage that answers without looking at c.Writer.Written()
TimeoutPostUnguarded ==
    /\ AfterNext("Timeout")
    /\ c' = IF c.tctx = "DeadlineExceeded"
            THEN Return(Cancel(writeJSONError(Resume(c), StatusGatewayTimeout,
                                              "request timeout")))
            ELSE Return(Cancel(Resume(c)))
    /\ UNCHANGED <<limiterVars, ghostVars>>

\* middleware.Timeout, after c.Next()
TimeoutPost ==
    /\ AfterNext("Timeout")
    /\ c' = IF c.tctx = "DeadlineExceeded" /\ ~c.w.written
            THEN Return(Cancel(writeJSONError(Resume(c), StatusGatewayTimeout,
                                              "request timeout")))
            ELSE Return(Cancel(Resume(c)))
    /\ UNCHANGED <<limiterVars, ghostVars>>

\* middleware.RateLimiter.Middleware, lines 144-145: the client key and the
\* first locked section. start and prior remember, for the check that follows,
\* the key's window start and the admissions counted in that window.
RateLimiter ==
    /\ AtStage("RateLimiter")
    /\ \E ip \in {Client} :
        LET g == getVisitor(ip, {})
        IN  /\ visitors' = g.visitors
            /\ store' = g.store
            /\ winStart' = IF g.created THEN [winStart EXCEPT ![ip] = now] ELSE winStart
            /\ winAdmits' = IF g.created THEN [winAdmits EXCEPT ![ip] = 0] ELSE winAdmits
            /\ c' = [Enter(c, "RateLimiter") EXCEPT
                        !.pc = "check", !.ip = ip, !.v = g.v,
                        !.start = IF winStart[ip] = -1 THEN now ELSE winStart[ip],
                        !.prior = IF winStart[ip] = -1 THEN 0 ELSE winAdmits[ip]]
    /\ UNCHANGED <<now, requests, window, foreignVars>>

\* middleware.RateLimiter.Middleware, lines 147-165: the second locked section,
\* then the 429 or c.Next()
RateLimiterCheck ==
    /\ c.pc = "check"
    /\ LET a == admission(c.v)
           cx == [c EXCEPT !.v = 0, !.start = 0, !.prior = 0,
                           !.rl = IF a.admit THEN "admitted" ELSE "rejected"]
       IN  /\ store' = Collect(a.store, visitors, {})
           /\ c' = IF a.admit
                   THEN Next_(cx, "RateLimiter")
                   ELSE Return(writeJSONError(cx, StatusTooManyRequests,
                                              "rate limit exceeded"))
           /\ winStart' = IF a.reset THEN [winStart EXCEPT ![c.ip] = now] ELSE winStart
           /\ winAdmits' = [winAdmits EXCEPT ![c.ip] =
                               (IF a.reset THEN 0 ELSE @) + (IF a.admit THEN 1 ELSE 0)]
    /\ UNCHANGED <<now, requests, window, visitors, foreignVars>>

\* the Authorization headers a client sends, as strings.Split(header, " ")
\* returns them (<<>> stands for no header)
AuthHeaders ==
    { <<>>, <<"Basic", "dXNlcjpwdw==">>, <<"Bearer">>, <<"Bearer", "forged">>,
      <<"Bearer", "expired">>, <<"Bearer", "user-token">>, <<"Bearer", "admin-token">> }

\* JWTManager.Verify: the claims of a token whose signature and expiry are good
Verify(tokenString) ==
    CASE tokenString = "user-token" ->
            [ok |-> TRUE, claims |-> [UserID |-> 7, Role |-> "user"]]
      [] tokenString = "admin-token" ->
            [ok |-> TRUE, claims |-> [UserID |-> 1, Role |-> "admin"]]
      [] OTHER -> [ok |-> FALSE, claims |-> [UserID |-> 0, Role |-> ""]]

\* an AuthMiddleware that attaches what Verify returned before it looks at the error
AuthMiddlewareAttachFirst(cx, h) ==
    IF h = <<>>
    THEN Return(Abort(writeJSONError(cx, StatusUnauthorized,
                                     "missing authorization header")))
    ELSE IF Len(h) # 2 \/ h[1] # "Bearer"
    THEN Return(Abort(writeJSONError(cx, StatusUnauthorized,
                                     "invalid authorization header format")))
    ELSE LET attached == [cx EXCEPT !.claims = Append(@, Verify(h[2]).claims)]
         IN  IF ~Verify(h[2]).ok
             THEN Return(Abort(writeJSONError(attached, StatusUnauthorized,
                                              "invalid or expired token")))
             ELSE Next_(attached, "Auth")

\* middleware.OptionalAuthMiddleware on the header h (no route installs it)
OptionalAuthMiddleware(cx, h) ==
    IF h # <<>> /\ Len(h) = 2 /\ h[1] = "Bearer" /\ Verify(h[2]).ok
    THEN Next_([cx EXCEPT !.claims = Append(@, Verify(h[2]).claims)], "Auth")
    ELSE Next_(cx, "Auth")

\* middleware.AuthMiddleware on the header h
AuthMiddleware(cx, h) ==
    IF h = <<>>
    THEN Return(Abort(writeJSONError(cx, StatusUnauthorized,
                                     "missing authorization header")))
    ELSE IF Len(h) # 2 \/ h[1] # "Bearer"
    THEN Return(Abort(writeJSONError(cx, StatusUnauthorized,
                                     "invalid authorization header format")))
    ELSE IF ~Verify(h[2]).ok
    THEN Return(Abort(writeJSONError(cx, StatusUnauthorized, "invalid or expired token")))
    ELSE Next_([cx EXCEPT !.claims = Append(@, Verify(h[2]).claims)], "Auth")

\* r.withAuth()
Auth ==
    /\ AtStage("Auth")
    /\ \E h \in AuthHeaders :
        c' = AuthMiddleware([Enter(c, "Auth") EXCEPT !.authHeader = h], h)
    /\ UNCHANGED <<limiterVars, ghostVars>>

\* ctx.Value(UserClaimsKey): the value attached last
HasClaims(cx) == cx.claims # <<>>

UserClaims(cx) == cx.claims[Len(cx.claims)]

\* a role check that accepts every verified caller
RequireRoleAny(cx, roles) ==
    IF ~HasClaims(cx)
    THEN Return(Abort(writeJSONError(cx, StatusUnauthorized, "unauthorized")))
    ELSE Next_(cx, "Role")

\* middleware.RequireRole(roles...)
RequireRole(cx, roles) ==
    IF ~HasClaims(cx)
    THEN Return(Abort(writeJSONError(cx, StatusUnauthorized, "unauthorized")))
    ELSE IF UserClaims(cx).Role \notin roles
    THEN Return(Abort(writeJSONError(cx, StatusForbidden, "insufficient permissions")))
    ELSE Next_(cx, "Role")

\* r.withRole("admin")
Role ==
    /\ AtStage("Role")
    /\ c' = RequireRole(Enter(c, "Role"), AllowedRoles)
    /\ UNCHANGED <<limiterVars, ghostVars>>

\* ------------------------------------------------- backend failures
\* google.golang.org/grpc/codes
Codes ==
    { "OK", "Canceled", "Unknown", "InvalidArgument", "DeadlineExceeded", "NotFound",
      "AlreadyExists", "PermissionDenied", "ResourceExhausted", "FailedPrecondition",
      "Aborted", "OutOfRange", "Unimplemented", "Internal", "Unavailable", "DataLoss",
      "Unauthenticated" }

\* handlers.grpcCodeToHTTP
grpcCodeToHTTP(code) ==
    CASE code = "InvalidArgument" -> StatusBadRequest
      [] code = "NotFound" -> StatusNotFound
      [] code = "AlreadyExists" -> StatusConflict
      [] code = "PermissionDenied" -> StatusForbidden
      [] code = "Unauthenticated" -> StatusUnauthorized
      [] code = "ResourceExhausted" -> StatusTooManyRequests
      [] code = "Unimplemented" -> StatusNotImplemented
      [] code = "Unavailable" -> StatusServiceUnavailable
      [] code = "DeadlineExceeded" -> StatusGatewayTimeout
      [] code = "Canceled" -> StatusRequestTimeout
      [] OTHER -> StatusInternalServerError

\* status.FromError: ok only for an error that carries a gRPC status
FromError(err) == [ok |-> err.grpc, code |-> err.code, message |-> err.message]

\* handlers.writeJSONErrorFromGRPC
writeJSONErrorFromGRPC(cx, err, defaultStatus) ==
    IF ~FromError(err).ok
    THEN handlersWriteJSON(cx, defaultStatus, err.message)
    ELSE handlersWriteJSON(cx, grpcCodeToHTTP(FromError(err).code), FromError(err).message)

\* the failures a remote call returns while its context is live: status errors
\* of the backend or the transport, and an error that carries no status
BackendErrors ==
    { [grpc |-> TRUE, code |-> "NotFound", message |-> "record not found"],
      [grpc |-> TRUE, code |-> "Unavailable", message |-> "connection refused"],
      [grpc |-> FALSE, code |-> "Unknown", message |-> "unexpected EOF"] }

\* the error of a remote call whose context is done: the client reports the
\* context's error as a status (DeadlineExceeded or Canceled)
ContextError(err) ==
    [grpc |-> TRUE, code |-> err,
     message |-> IF err = "DeadlineExceeded"
                 THEN "context deadline exceeded" ELSE "context canceled"]

\* what h.xxxClient.Call(c.Request.Context(), ...) returns
CallResults(cx) ==
    IF cx.tctx \in {"DeadlineExceeded", "Canceled"}
    THEN {[ok |-> FALSE, err |-> ContextError(cx.tctx)]}
    ELSE {[ok |-> TRUE, err |-> ContextError("Canceled")]}
         \cup {[ok |-> FALSE, err |-> e] : e \in BackendErrors}

\* a call of writeJSONErrorFromGRPC: its arguments and the writer it wrote to
NoCall ==
    [pc |-> "idle", err |-> ContextError("Canceled"),
     defaultStatus |-> StatusInternalServerError, w |-> FreshContext.w]

\* the messages of the backends' failures
Messages == {"record not found", "token signature is invalid"}

\* every error a remote call can return: a status of any code, or no status
Errors ==
    {[grpc |-> TRUE, code |-> k, message |-> m] : k \in Codes, m \in Messages}
    \cup {[grpc |-> FALSE, code |-> "Unknown", message |-> m] : m \in Messages}

\* the default statuses the handlers pass
DefaultStatuses == {StatusInternalServerError, StatusNotFound, StatusUnauthorized}

\* ------------------------------------------------------------- ListOrders
\* the callers AuthMiddleware lets through to /api/v1/orders
Callers ==
    { [UserID |-> 7, Role |-> "user"], [UserID |-> 8, Role |-> "user"],
      [UserID |-> 1, Role |-> "admin"] }

\* the values of a query parameter: absent, numbers, not a number
QueryValues == {"", "0", "1", "7", "8", "101", "abc"}

\* strconv.Atoi and strconv.ParseInt with the error dropped: 0 unless the
\* string is a number
ParseInt(str) ==
    CASE str = "0" -> 0
      [] str = "1" -> 1
      [] str = "7" -> 7
      [] str = "8" -> 8
      [] str = "101" -> 101
      [] OTHER -> 0

\* the ListOrdersRequest that OrderHandler.ListOrders sends for the query q of
\* a caller with the claims cl
ListOrdersRequest(cl, q) ==
    [Page |-> IF ParseInt(q.page) < 1 THEN 1 ELSE ParseInt(q.page),
     PerPage |-> IF ParseInt(q.per_page) < 1 \/ ParseInt(q.per_page) > 100
                 THEN 10 ELSE ParseInt(q.per_page),
     UserId |-> IF q.user_id # "" THEN ParseInt(q.user_id) ELSE cl.UserID]

NoListing ==
    [pc |-> "idle", claims |-> [UserID |-> 0, Role |-> ""],
     query |-> [page |-> "", per_page |-> "", user_id |-> ""],
     req |-> [Page |-> 0, PerPage |-> 0, UserId |-> 0]]

\* ------------------------------------------------------- the origin check
\* the values of the Origin header of a request ("" stands for no header)
Origins ==
    {"", "https://shop.example", "https://admin.example", "https://evil.example"}

\* the entries ALLOWED_ORIGINS can list
OriginEntries ==
    {"*", "https://shop.example", "https://admin.example", "https://partner.example"}

\* cfg.AllowedOrigins: getEnvArray never returns an empty list
AllowedLists == UNION {[1..n -> OriginEntries] : n \in 1..MaxOrigins}

RECURSIVE allowedOrigin(_, _)
\* the loop of middleware.CORS over allowedOrigins, with its default "*"
allowedOrigin(origin, allowed) ==
    IF allowed = <<>> THEN "*"
    ELSE IF Head(allowed) = "*" \/ Head(allowed) = origin THEN Head(allowed)
    ELSE allowedOrigin(origin, Tail(allowed))

NoCORS == [pc |-> "idle", origin |-> "", allowed |-> <<"*">>, header |-> ""]

\* ------------------------------------------------------------ the handlers
\* the handler function up to its first remote call: healthCheck answers,
\* GetProfile needs the caller's id, the others validate their input
HandlerEntry(cx, valid) ==
    CASE cx.route.handler = "healthCheck" ->
            [JSON(cx, StatusOK, "healthy") EXCEPT !.pc = "written"]
      [] cx.route.handler = "GetProfile" ->
            IF ~HasClaims(cx)
            THEN [handlersWriteJSON(cx, StatusUnauthorized, "unauthorized")
                    EXCEPT !.pc = "written"]
            ELSE [cx EXCEPT !.pc = "call", !.calls = 1]
      [] OTHER ->
            IF ~valid
            THEN [handlersWriteJSON(cx, StatusBadRequest, "invalid request")
                    EXCEPT !.pc = "written"]
            ELSE [cx EXCEPT !.pc = "call", !.calls = 1]

Handler ==
    /\ AtStage("Handler")
    /\ \E valid \in BOOLEAN : c' = HandlerEntry(Enter(c, "Handler"), valid)
    /\ UNCHANGED <<limiterVars, ghostVars>>

\* the handler function from the return of a remote call: the error answer,
\* the success answer, or (DeleteAddress) the ownership check and the second call
HandlerResume(cx, res, owner) ==
    IF ~res.ok
    THEN [writeJSONErrorFromGRPC(cx, res.err, cx.route.default) EXCEPT !.pc = "written"]
    ELSE IF cx.route.handler = "DeleteAddress" /\ cx.calls = 1
    THEN IF ~HasClaims(cx) \/ ~owner
         THEN [handlersWriteJSON(cx, StatusUnauthorized, "unauthorized")
                 EXCEPT !.pc = "written"]
         ELSE [cx EXCEPT !.calls = 2]
    ELSE [handlersWriteJSON(cx, cx.route.success, "ok") EXCEPT !.pc = "written"]

CallReturns ==
    /\ c.pc = "call"
    /\ \E res \in CallResults(c), owner \in BOOLEAN : c' = HandlerResume(c, res, owner)
    /\ UNCHANGED <<limiterVars, ghostVars>>

\* the handler function returns
HandlerReturns ==
    /\ c.pc = "written"
    /\ c' = Return(c)
    /\ UNCHANGED <<limiterVars, ghostVars>>

\* ------------------------------------------------------------------ panics
InStack(stage, stack) == \E i \in 1..Len(stack) : stack[i] = stage

RECURSIVE Below(_, _)
\* the frames under the frame of stage
Below(stage, stack) ==
    IF stack = <<>> THEN <<>>
    ELSE IF Head(stack) = stage THEN Tail(stack)
    ELSE Below(stage, Tail(stack))

\* the deferred function of middleware.Recovery when recover() returns a panic
RecoveryDefer(cx) ==
    writeJSONError(cx, StatusInternalServerError, "internal server error")

\* code running under Recovery panics: the frames above Recovery are unwound
\* (Timeout's deferred cancel runs), Recovery's deferred function answers and
\* Recovery returns
Panic ==
    /\ c.pc \in {"pre", "check", "call", "written"}
    /\ InStack("Recovery", c.stack)
    /\ LET entered == IF c.pc = "pre" THEN Enter(c, Stage(c)) ELSE c
           unwound == [Cancel(entered) EXCEPT
                          !.stack = Below("Recovery", @), !.v = 0, !.start = 0, !.prior = 0,
                          !.panicked = TRUE, !.wroteBeforePanic = c.w.written]
       IN  c' = Return(RecoveryDefer(unwound))
    /\ store' = Collect(store, visitors, {})
    /\ UNCHANGED <<now, requests, window, visitors, ghostVars>>

\* ------------------------------------------------------- the environment
\* the client goes away: the server cancels the request's context
ClientCancels ==
    /\ c.pc \notin {"idle", "done"}
    /\ c.reqCtx = "nil"
    /\ c' = [c EXCEPT !.reqCtx = "Canceled",
                      !.tctx = IF @ = "nil" THEN "Canceled" ELSE @]
    /\ UNCHANGED <<limiterVars, ghostVars>>

\* the timer of context.WithTimeout fires
DeadlineFires ==
    /\ c.pc \notin {"idle", "done"}
    /\ c.tctx = "nil"
    /\ c' = [c EXCEPT !.tctx = "DeadlineExceeded", !.inCall = (c.pc = "call")]
    /\ UNCHANGED <<limiterVars, ghostVars>>

Tick ==
    /\ now < MaxTime
    /\ now' = now + 1
    /\ UNCHANGED <<requests, window, visitors, store, c, ghostVars>>

\* a tick of the ticker of RateLimiter.cleanup
Sweep ==
    /\ visitors' = cleanup
    /\ visitors' # visitors
    /\ store' = Collect(store, visitors', {c.v} \cup Held)
    /\ UNCHANGED <<now, requests, window, c, ghostVars>>

\* --------------------------------------------------------------- SpecLife
\* NumConns requests may arrive while the process lives
Conns == 1..NumConns

NoConn ==
    [state |-> "none",
     afterSignal |-> FALSE,    \* it was accepted after the signal had arrived
     afterShutdown |-> FALSE,  \* it was accepted after Shutdown had been called
     inDrain |-> FALSE,        \* it was answered while Shutdown was waiting
     ctx |-> "nil"]            \* Err() of the context the server gave the request

\* main() stands at <-quit (line 83) and the goroutine of lines 71-78 starts
InitLife ==
    /\ main = "waitQuit"
    /\ server = "starting"
    /\ quit = 0
    /\ signaled = FALSE
    /\ drain = 0
    /\ forced = FALSE
    /\ conns = [r \in Conns |-> NoConn]
    /\ sweeper = "waiting"

Active == {r \in Conns : conns[r].state = "active"}

\* server.ListenAndServe binds the port and accepts
Listen ==
    /\ server = "starting"
    /\ main \in {"waitQuit", "received"}
    /\ server' = "accepting"
    /\ UNCHANGED <<main, quit, signaled, drain, forced, conns>>
    /\ UNCHANGED <<limiterVars, pipeVars, rlVars, errVars, sweeper>>

\* server.ListenAndServe returns an error (the port is taken, or Accept fails
\* for good later): lines 73-76 log it and the goroutine ends
ListenFails ==
    /\ server \in {"starting", "accepting"}
    /\ main \in {"waitQuit", "received"}
    /\ server' = IF server = "starting" THEN "failed" ELSE "broken"
    /\ UNCHANGED <<main, quit, signaled, drain, forced, conns>>
    /\ UNCHANGED <<limiterVars, pipeVars, rlVars, errVars, sweeper>>

\* SIGINT or SIGTERM reaches the process: signal.Notify sends it to quit
\* without blocking (a channel of capacity 1)
Signal ==
    /\ main # "exited"
    /\ quit' = 1
    /\ signaled' = TRUE
    /\ UNCHANGED <<main, server, drain, forced, conns>>
    /\ UNCHANGED <<limiterVars, pipeVars, rlVars, errVars, sweeper>>

\* <-quit (line 83)
ReceiveQuit ==
    /\ main = "waitQuit"
    /\ quit = 1
    /\ quit' = 0
    /\ main' = "received"
    /\ UNCHANGED <<server, signaled, drain, forced, conns>>
    /\ UNCHANGED <<limiterVars, pipeVars, rlVars, errVars, sweeper>>

\* a Shutdown that leaves the listener open
ShutdownBeginsListening ==
    /\ main = "received"
    /\ main' = "shutdown"
    /\ drain' = 0
    /\ UNCHANGED <<server, quit, signaled, forced, conns>>
    /\ UNCHANGED <<limiterVars, pipeVars, rlVars, errVars, sweeper>>

\* server.Shutdown(ctx) is entered (line 90): the listener is closed, so that
\* ListenAndServe returns ErrServerClosed
ShutdownBegins ==
    /\ main = "received"
    /\ main' = "shutdown"
    /\ drain' = 0
    /\ server' = IF server \in {"failed", "broken"} THEN server ELSE "closed"
    /\ UNCHANGED <<quit, signaled, forced, conns>>
    /\ UNCHANGED <<limiterVars, pipeVars, rlVars, errVars, sweeper>>

\* a second passes while Shutdown waits
DrainTick ==
    /\ main = "shutdown"
    /\ drain < DrainTimeout
    /\ drain' = drain + 1
    /\ UNCHANGED <<main, server, quit, signaled, forced, conns>>
    /\ UNCHANGED <<limiterVars, pipeVars, rlVars, errVars, sweeper>>

\* a Shutdown that does not wait for the requests in flight
ShutdownReturnsAtOnce ==
    /\ main = "shutdown"
    /\ main' = "returned"
    /\ forced' = FALSE
    /\ UNCHANGED <<server, quit, signaled, drain, conns>>
    /\ UNCHANGED <<limiterVars, pipeVars, rlVars, errVars, sweeper>>

\* server.Shutdown finds no connection serving a request and returns nil
ShutdownReturns ==
    /\ main = "shutdown"
    /\ Active = {}
    /\ main' = "returned"
    /\ forced' = FALSE
    /\ UNCHANGED <<server, quit, signaled, drain, conns>>
    /\ UNCHANGED <<limiterVars, pipeVars, rlVars, errVars, sweeper>>

\* the context of line 87 expires while requests are in flight: server.Shutdown
\* returns its error
ShutdownTimesOut ==
    /\ main = "shutdown"
    /\ Active # {}
    /\ drain >= DrainTimeout
    /\ main' = "returned"
    /\ forced' = TRUE
    /\ UNCHANGED <<server, quit, signaled, drain, conns>>
    /\ UNCHANGED <<limiterVars, pipeVars, rlVars, errVars, sweeper>>

\* lines 91-95: main logs and returns, the process ends and with it every
\* request still in flight
MainReturns ==
    /\ main = "returned"
    /\ main' = "exited"
    /\ conns' = [r \in Conns |->
                    IF conns[r].state = "active"
                    THEN [conns[r] EXCEPT !.state = "killed"] ELSE conns[r]]
    /\ UNCHANGED <<server, quit, signaled, drain, forced>>
    /\ UNCHANGED <<limiterVars, pipeVars, rlVars, errVars, sweeper>>

\* the listener accepts request r and hands it to the engine
ConnAccept(r) ==
    /\ server = "accepting"
    /\ main # "exited"
    /\ conns[r].state = "none"
    /\ conns' = [conns EXCEPT ![r] =
                    [state |-> "active", afterSignal |-> signaled,
                     afterShutdown |-> main \in {"shutdown", "returned"},
                     inDrain |-> FALSE, ctx |-> "nil"]]
    /\ UNCHANGED <<main, server, quit, signaled, drain, forced>>
    /\ UNCHANGED <<limiterVars, pipeVars, rlVars, errVars, sweeper>>

\* the chain of request r returns and its response is sent
ConnCompletes(r) ==
    /\ conns[r].state = "active"
    /\ main # "exited"
    /\ conns' = [conns EXCEPT ![r].state = "done", ![r].inDrain = (main = "shutdown")]
    /\ UNCHANGED <<main, server, quit, signaled, drain, forced>>
    /\ UNCHANGED <<limiterVars, pipeVars, rlVars, errVars, sweeper>>

\* the client of request r goes away: the server cancels the request's context
ConnClientGone(r) ==
    /\ conns[r].state = "active"
    /\ conns[r].ctx = "nil"
    /\ main # "exited"
    /\ conns' = [conns EXCEPT ![r].ctx = "Canceled"]
    /\ UNCHANGED <<main, server, quit, signaled, drain, forced, sweeper>>
    /\ UNCHANGED <<limiterVars, pipeVars, rlVars, errVars>>

\* the goroutine of NewRateLimiter: the ticker of cleanup fires and the sweep
\* takes the lock
SweepWakes ==
    /\ sweeper = "waiting"
    /\ main # "exited"
    /\ sweeper' = "sweeping"
    /\ UNCHANGED <<main, server, quit, signaled, drain, forced, conns>>
    /\ UNCHANGED <<limiterVars, pipeVars, rlVars, errVars>>

\* the sweep unlocks and waits for the next tick: the loop has no exit
SweepSleeps ==
    /\ sweeper = "sweeping"
    /\ main # "exited"
    /\ sweeper' = "waiting"
    /\ UNCHANGED <<main, server, quit, signaled, drain, forced, conns>>
    /\ UNCHANGED <<limiterVars, pipeVars, rlVars, errVars>>

\* the exit status of the process: main returns, nothing calls os.Exit
ExitStatus == IF main = "exited" THEN 0 ELSE -1

NextLife ==
    \/ Listen
    \/ ListenFails
    \/ Signal
    \/ ReceiveQuit
    \/ ShutdownBegins
    \/ DrainTick
    \/ ShutdownReturns
    \/ ShutdownTimesOut
    \/ MainReturns
    \/ \E r \in Conns : ConnAccept(r)
    \/ \E r \in Conns : ConnCompletes(r)
    \/ \E r \in Conns : ConnClientGone(r)
    \/ SweepWakes
    \/ SweepSleeps

\* ------------------------------------------------------------------- Spec
Init ==
    /\ now = 0
    /\ requests \in 0..MaxLimit
    /\ window \in 0..MaxWindow
    /\ visitors = [ip \in ClientIPs |-> 0]
    /\ store = [i \in VisitorIds |-> NoVisitor]
    /\ c = FreshContext
    /\ winStart = [ip \in ClientIPs |-> -1]
    /\ winAdmits = [ip \in ClientIPs |-> 0]
    /\ procs = [p \in Procs |-> IdleProc]
    /\ admitted = [ip \in ClientIPs |-> 0]
    /\ shadow = [ip \in ClientIPs |-> NoShadow]
    /\ report = NoCall
    /\ listing = NoListing
    /\ cors = NoCORS
    /\ InitLife

Next ==
    \/ Accept
    \/ CORS
    \/ Recovery
    \/ RequestID
    \/ Logger
    \/ Cancellation
    \/ Timeout
    \/ RateLimiter
    \/ RateLimiterCheck
    \/ Auth
    \/ Role
    \/ Handler
    \/ CallReturns
    \/ HandlerReturns
    \/ TimeoutPost
    \/ CancellationPost
    \/ LoggerPost
    \/ Panic
    \/ ClientCancels
    \/ DeadlineFires
    \/ Tick
    \/ Sweep

Spec == Init /\ [][Next]_vars

\* ---------------------------------------------------------------- SpecErr
\* a handler is about to report the failure err with its default status
InitErr ==
    /\ now = 0
    /\ requests = MaxLimit
    /\ window = MaxWindow
    /\ visitors = [ip \in ClientIPs |-> 0]
    /\ store = [i \in VisitorIds |-> NoVisitor]
    /\ c = FreshContext
    /\ winStart = [ip \in ClientIPs |-> -1]
    /\ winAdmits = [ip \in ClientIPs |-> 0]
    /\ procs = [p \in Procs |-> IdleProc]
    /\ admitted = [ip \in ClientIPs |-> 0]
    /\ shadow = [ip \in ClientIPs |-> NoShadow]
    /\ \E err \in Errors, d \in DefaultStatuses :
        report = [NoCall EXCEPT !.pc = "called", !.err = err, !.defaultStatus = d]
    /\ listing = NoListing
    /\ cors = NoCORS
    /\ InitLife

\* the handler calls writeJSONErrorFromGRPC(w, err, defaultStatus)
ErrTranslate ==
    /\ report.pc = "called"
    /\ report' = [report EXCEPT !.pc = "written",
                      !.w = writeJSONErrorFromGRPC(FreshContext, report.err, report.defaultStatus).w]
    /\ UNCHANGED <<limiterVars, pipeVars, rlVars, lifeVars, listing, cors>>

NextErr == ErrTranslate

SpecErr == InitErr /\ [][NextErr]_vars

\* ---------------------------------------------------------------- SpecCORS
InitCORS ==
    /\ now = 0
    /\ requests = MaxLimit
    /\ window = MaxWindow
    /\ visitors = [ip \in ClientIPs |-> 0]
    /\ store = [i \in VisitorIds |-> NoVisitor]
    /\ c = FreshContext
    /\ winStart = [ip \in ClientIPs |-> -1]
    /\ winAdmits = [ip \in ClientIPs |-> 0]
    /\ procs = [p \in Procs |-> IdleProc]
    /\ admitted = [ip \in ClientIPs |-> 0]
    /\ shadow = [ip \in ClientIPs |-> NoShadow]
    /\ report = NoCall
    /\ listing = NoListing
    /\ InitLife
    /\ \E origin \in Origins, allowed \in AllowedLists :
        cors = [NoCORS EXCEPT !.pc = "request", !.origin = origin, !.allowed = allowed]

\* middleware.CORS sets Access-Control-Allow-Origin on the response
CORSAllowOrigin ==
    /\ cors.pc = "request"
    /\ cors' = [cors EXCEPT !.pc = "done",
                            !.header = allowedOrigin(cors.origin, cors.allowed)]
    /\ UNCHANGED <<limiterVars, pipeVars, rlVars, lifeVars, report, listing>>

NextCORS == CORSAllowOrigin

SpecCORS == InitCORS /\ [][NextCORS]_vars

\* the entries of the configured list
Listed == {cors.allowed[i] : i \in 1..Len(cors.allowed)}

\* C30: Access-Control-Allow-Origin equals the request's Origin only when that
\* origin is in the configured list, and for a request whose Origin is not in
\* the list it is not "*" unless "*" is configured.
C30_OnlyAllowedOrigins ==
    (cors.pc = "done" /\ cors.origin # "") =>
        /\ cors.header = cors.origin => cors.origin \in Listed
        /\ (cors.origin \notin Listed /\ "*" \notin Listed) => cors.header # "*"

\* -------------------------------------------------------------- SpecOrders
\* an authenticated caller asks for GET /api/v1/orders with some query
InitOrders ==
    /\ now = 0
    /\ requests = MaxLimit
    /\ window = MaxWindow
    /\ visitors = [ip \in ClientIPs |-> 0]
    /\ store = [i \in VisitorIds |-> NoVisitor]
    /\ c = FreshContext
    /\ winStart = [ip \in ClientIPs |-> -1]
    /\ winAdmits = [ip \in ClientIPs |-> 0]
    /\ procs = [p \in Procs |-> IdleProc]
    /\ admitted = [ip \in ClientIPs |-> 0]
    /\ shadow = [ip \in ClientIPs |-> NoShadow]
    /\ report = NoCall
    /\ cors = NoCORS
    /\ InitLife
    /\ \E cl \in Callers, pg \in {"", "0", "7"}, pp \in {"", "8", "101"},
          uid \in QueryValues :
        listing = [NoListing EXCEPT
                      !.pc = "called", !.claims = cl,
                      !.query = [page |-> pg, per_page |-> pp, user_id |-> uid]]

\* OrderHandler.ListOrders builds its request and calls the backend
ListOrdersCall ==
    /\ listing.pc = "called"
    /\ listing' = [listing EXCEPT
                      !.pc = "sent",
                      !.req = ListOrdersRequest(listing.claims, listing.query)]
    /\ UNCHANGED <<limiterVars, pipeVars, rlVars, lifeVars, report, cors>>

NextOrders == ListOrdersCall

SpecOrders == InitOrders /\ [][NextOrders]_vars

\* C20: for a caller whose role is not admin the user id sent to the backend
\* is the caller's own, whatever user_id the query carries.
C20_OwnOrdersOnly ==
    (listing.pc = "sent" /\ listing.claims.Role # "admin") =>
        listing.req.UserId = listing.claims.UserID

\* the table of the backend kinds and their client statuses
TableStatus(kind) ==
    CASE kind = "InvalidArgument" -> 400
      [] kind = "NotFound" -> 404
      [] kind = "AlreadyExists" -> 409
      [] kind = "PermissionDenied" -> 403
      [] kind = "Unauthenticated" -> 401
      [] kind = "ResourceExhausted" -> 429
      [] kind = "Unimplemented" -> 501
      [] kind = "Unavailable" -> 503
      [] kind = "DeadlineExceeded" -> 504
      [] kind = "Canceled" -> 408
      [] OTHER -> 500

\* C6: whatever default status the handler passes, the status sent for a
\* backend failure is the table's status of its kind, and 500 for an error that
\* carries no backend status.
C6_FixedTable ==
    report.pc = "written" =>
        report.w.sent = IF report.err.grpc THEN TableStatus(report.err.code) ELSE 500

\* the kinds that report on authentication and authorization
AuthKinds == {"Unauthenticated", "PermissionDenied"}

\* C11: for a backend failure of kind unauthenticated or permission-denied the
\* client response does not depend on the backend's message: the same failure
\* with any other backend message produces the identical response.
C11_GenericAuthMessage ==
    (report.pc = "written" /\ report.err.grpc /\ report.err.code \in AuthKinds) =>
        \A m \in Messages :
            writeJSONErrorFromGRPC(FreshContext, [report.err EXCEPT !.message = m],
                                   report.defaultStatus).w = report.w

\* --------------------------------------------------------------- SpecLife
\* main() with the limiter that NewRouter built from the configuration
InitMain ==
    /\ Init
    /\ requests = MaxLimit
    /\ window = MaxWindow

SpecLife == InitMain /\ [][NextLife]_vars

\* the steps the Go scheduler and the clock take without outside help: a
\* runnable main goroutine runs, ListenAndServe returns, the seconds of the
\* drain pass; signals and requests are the environment's
FairLife ==
    /\ WF_vars(Listen \/ ListenFails)
    /\ WF_vars(ReceiveQuit)
    /\ WF_vars(ShutdownBegins)
    /\ WF_vars(DrainTick)
    /\ WF_vars(ShutdownReturns)
    /\ WF_vars(ShutdownTimesOut)
    /\ WF_vars(MainReturns)

SpecLifeFair == InitMain /\ [][NextLife]_vars /\ FairLife

\* C12: when the listener has failed, at start or later, the process goes
\* through the shutdown sequence and terminates, with or without a signal.
C12_ListenerFailureTerminates ==
    (server \in {"failed", "broken"}) ~> (main = "exited")

\* C13: the exit status is non-zero exactly when the drain was forced or the
\* listener failed to start, and 0 after a clean drain.
C13_ExitStatus ==
    main = "exited" => ((ExitStatus # 0) <=> (forced \/ server = "failed"))

\* C14: the process reaches Stopped only after the limiter's sweep and the
\* server goroutine have returned.
C14_SweepReturnsBeforeStopped ==
    main = "exited" =>
        (sweeper = "returned" /\ server \in {"closed", "failed", "broken"})

\* C15: a request that is in flight from the start of the drain to the end of
\* the process has seen its context cancelled by the shutdown.
C15_RootCancelReleases ==
    \A r \in Conns : conns[r].state = "killed" => conns[r].ctx = "Canceled"

\* C7: after a termination signal, a request accepted before the signal is
\* cut off by the end of the process only when the drain timeout has elapsed
\* with the request still in flight; a request that finishes within the drain
\* timeout is answered before main returns.
C7_DrainCompletes ==
    \A r \in Conns :
        /\ conns[r].state = "killed" => (forced /\ drain >= DrainTimeout)
        /\ (main = "exited" /\ conns[r].state # "none" /\ ~forced) =>
                conns[r].state = "done"

\* C7 witness: the process has ended after a clean drain during which a
\* request accepted before the signal was answered
C7_Witness ==
    /\ main = "exited"
    /\ ~forced
    /\ \E r \in Conns :
        conns[r].state = "done" /\ ~conns[r].afterSignal /\ conns[r].inDrain

RLGetVisitor(p) ==
    /\ procs[p].pc = "idle"
    /\ \E ip \in ClientIPs :
        LET g == getVisitor(ip, Held)
        IN  /\ visitors' = g.visitors
            /\ store' = g.store
            /\ procs' = [procs EXCEPT ![p] =
                            [pc |-> "check", ip |-> ip, v |-> g.v, out |-> "none"]]
            /\ admitted' = IF g.created THEN [admitted EXCEPT ![ip] = 0] ELSE admitted
            /\ shadow' = [shadow EXCEPT ![ip] = RefGetVisitor(ip)]
    /\ UNCHANGED <<now, requests, window, pipeVars, errVars, lifeVars>>

\* request p runs the second locked section (lines 147-162) on the struct it holds
RLCheck(p) ==
    /\ procs[p].pc = "check"
    /\ LET a == admission(procs[p].v)
           ip == procs[p].ip
           stored == visitors[ip] = procs[p].v
       IN  /\ procs' = [procs EXCEPT ![p] =
                           [pc |-> "idle", ip |-> ip, v |-> 0,
                            out |-> IF a.admit THEN "admitted" ELSE "rejected"]]
           /\ store' = Collect(a.store, visitors, {procs'[q].v : q \in Procs})
           /\ admitted' = [admitted EXCEPT ![ip] =
                              (IF a.reset /\ stored THEN 0 ELSE @)
                              + (IF a.admit THEN 1 ELSE 0)]
           /\ shadow' = [shadow EXCEPT ![ip] = RefAdmission(ip).shadow]
    /\ UNCHANGED <<now, requests, window, visitors, pipeVars, errVars, lifeVars>>

InitRL == Init

NextRL ==
    \/ \E p \in Procs : RLGetVisitor(p)
    \/ \E p \in Procs : RLCheck(p)
    \/ Sweep
    \/ Tick

SpecRL == InitRL /\ [][NextRL]_vars

\* C9: under every interleaving of the checks of one key with each other and
\* with the sweep, the requests admitted for a key since the window start of
\* the record the map holds for it never number more than L.
C9_NoLostAdmission ==
    \A ip \in ClientIPs : visitors[ip] # 0 => admitted[ip] <= requests

\* ------------------------------------------------------- claims on Spec
InRan(stage) == \E i \in 1..Len(c.ran) : c.ran[i] = stage

IsPrefix(s, t) == Len(s) <= Len(t) /\ \A i \in 1..Len(s) : s[i] = t[i]

\* C1: for a limit L >= 1, of the admission checks one client makes one after
\* another, a check made within W of the key's window start is admitted while
\* fewer than L were admitted in that window and rejected otherwise, a rejected
\* request is answered 429 and the limiter is the last stage it enters, and a
\* check made more than W after the window start is admitted and leaves the
\* count of its record at 1.
C1_FixedWindow ==
    /\ [](c.rl = "rejected" =>
            /\ c.w.sent = StatusTooManyRequests
            /\ c.ran[Len(c.ran)] = "RateLimiter")
    /\ [][(c.pc = "check" /\ c'.rl # "none" /\ requests >= 1) =>
            /\ (now - c.start <= window /\ c.prior < requests) => c'.rl = "admitted"
            /\ (now - c.start <= window /\ c.prior >= requests) => c'.rl = "rejected"
            /\ (now - c.start > window) =>
                    /\ c'.rl = "admitted"
                    /\ admission(c.v).store[c.v].count = 1
                    /\ winAdmits'[c.ip] = 1]_vars

\* C1 witness: with L >= 1, the check after the L admitted ones of a window has
\* been rejected and its request is over
C1_Witness ==
    /\ requests >= 1
    /\ c.pc = "done"
    /\ c.rl = "rejected"
    /\ winAdmits[Client] = requests

NoCredential == c.authHeader = <<>>

WrongRole ==
    /\ Len(c.authHeader) = 2
    /\ c.authHeader[1] = "Bearer"
    /\ Verify(c.authHeader[2]).ok
    /\ Verify(c.authHeader[2]).claims.Role \notin AllowedRoles

\* C2: on a route registered with withAuth and withRole, a request that
\* AuthMiddleware finds without a credential is answered 401, never 403, a
\* request whose token verifies with a role outside the allowed set is answered
\* 403 by RequireRole, and in both cases the handler is not entered.
C2_AuthOrdering ==
    c.route.auth = "role" =>
        /\ NoCredential => c.w.sent = StatusUnauthorized /\ ~InRan("Handler")
        /\ WrongRole => ~InRan("Handler")
        /\ (WrongRole /\ InRan("Role") /\ ~c.panicked) => c.w.sent = StatusForbidden

\* C2 witness: a request with a verified token of role "user" has been
\* answered on an admin-only route
C2_Witness ==
    /\ c.route.auth = "role"
    /\ WrongRole
    /\ c.pc = "done"
    /\ c.w.sent = StatusForbidden

\* C3: every response carries a non-empty X-Request-ID header, whichever
\* stage wrote it.
C3_RequestIDAlways == c.w.written => c.w.requestID # ""

\* C4: when the deadline of the Timeout stage fires while the handler is
\* blocked in a remote call, the request ends with exactly one response, of
\* status 504.
C4_DeadlineInCall ==
    (c.inCall /\ c.pc = "done" /\ ~c.panicked) =>
        /\ Len(c.w.body) = 1
        /\ c.w.sent = StatusGatewayTimeout
        /\ c.w.body[1].code = StatusGatewayTimeout

\* C4 witness: such a request is over, answered 504 by its handler
C4_Witness ==
    /\ c.inCall
    /\ c.pc = "done"
    /\ ~c.panicked
    /\ InRan("Handler")
    /\ c.w.sent = StatusGatewayTimeout

\* C5: whatever the outcome of the chain, a response body is written at most
\* once.
C5_WrittenOnce == Len(c.w.body) <= 1

\* C10: the stages entered are a prefix of CORS, Recovery, RequestID, Logger,
\* Cancellation, Timeout, RateLimiter and the route's Auth, Role and handler; a
\* stage is entered only while every earlier stage waits in c.Next(); once the
\* chain is aborted no further stage is entered; a request the limiter rejects
\* never reaches token verification.
C10_StageOrder ==
    /\ [](/\ IsPrefix(c.ran, Handlers(c))
          /\ c.pc = "pre" => (~c.aborted /\ Len(c.stack) = c.index - 1
                              /\ Len(c.ran) = c.index - 1)
          /\ c.rl = "rejected" => (~InRan("Auth") /\ ~InRan("Handler")))
    /\ [][(c.aborted /\ c'.aborted) => c'.ran = c.ran]_vars

\* C10 witness: a request to an admin-only route has been rejected by the
\* limiter
C10_Witness ==
    /\ c.route.auth = "role"
    /\ c.rl = "rejected"
    /\ c.pc = "done"

\* C16: while it serves one request the gateway makes at most one remote call.
C16_AtMostOneCall == c.calls <= 1

\* the headers the limiter is to put on the responses it affects
RateLimitHeaders == {"X-RateLimit-Limit", "X-RateLimit-Remaining"}

\* C17: a response to a request the limiter admitted carries X-RateLimit-Limit
\* and X-RateLimit-Remaining, and a response to a request it rejected carries
\* Retry-After.
C17_RateLimitHeaders ==
    (c.w.written /\ c.rl # "none") =>
        IF c.rl = "rejected"
        THEN "Retry-After" \in c.w.hdrs
        ELSE RateLimitHeaders \subseteq c.w.hdrs

\* C18: a request during which a stage under Recovery or the handler panicked
\* ends with the single answer 500 "internal server error".
C18_PanicContained ==
    (c.pc = "done" /\ c.panicked) =>
        /\ c.w.sent = StatusInternalServerError
        /\ c.w.body = <<[code |-> StatusInternalServerError,
                         message |-> "internal server error"]>>

\* the claims cl are exactly what a successful verification of header h yields
VerifiedBy(cl, h) ==
    /\ Len(h) = 2
    /\ h[1] = "Bearer"
    /\ Verify(h[2]).ok
    /\ cl = <<Verify(h[2]).claims>>

\* C19: a request's context holds at most one Claims value, and only the one of
\* a successful verification of its Authorization header; a request rejected
\* by AuthMiddleware holds none; the optional variant attaches under the same
\* condition and never rejects; once attached, the claims stay as they are
\* until the request is over.
C19_ClaimsOnce ==
    /\ [](/\ Len(c.claims) <= 1
          /\ c.claims # <<>> => (InRan("Auth") /\ VerifiedBy(c.claims, c.authHeader))
          /\ (c.aborted /\ c.ran # <<>> /\ c.ran[Len(c.ran)] = "Auth") => c.claims = <<>>
          /\ AtStage("Auth") =>
                \A h \in AuthHeaders :
                    LET o == OptionalAuthMiddleware(Enter(c, "Auth"), h)
                    IN  /\ ~o.aborted
                        /\ o.claims # <<>> => VerifiedBy(o.claims, h))
    /\ [][(c.claims # <<>> /\ c.pc # "done") => c'.claims = c.claims]_vars

\* C19 witness: a request whose token verified has run its handler to the end
\* with the claims attached, after a panic was recovered on the way out
C19_Witness ==
    /\ c.pc = "done"
    /\ c.claims # <<>>
    /\ InRan("Handler")
    /\ c.panicked

\* the step writes the first byte of the response, and not from Recovery's
\* deferred function
FirstWrite == ~c.w.written /\ c'.w.written /\ ~c'.panicked

\* C21: when the deadline of the Timeout stage has elapsed before anything was
\* written, the response that is then written is the 504, whoever tries to
\* write after the deadline.
C21_DeadlineAnswers504 ==
    [][(InRan("Timeout") /\ c.tctx = "DeadlineExceeded" /\ FirstWrite)
            => c'.w.sent = StatusGatewayTimeout]_vars

\* the request was turned away by the Cancellation stage before c.Next()
TurnedAway ==
    /\ c.aborted
    /\ ~c.panicked
    /\ c.ran # <<>>
    /\ c.ran[Len(c.ran)] = "Cancellation"

\* C22: a request already cancelled at the Cancellation stage is answered 503
\* and reaches neither the limiter, the auth stages nor the handler; a request
\* cancelled during the chain before anything was written is answered 503; a
\* request whose deadline passed before anything was written is answered 504.
C22_CancelledAnswers503 ==
    /\ [](TurnedAway =>
            /\ c.w.sent = StatusServiceUnavailable
            /\ c.rl = "none"
            /\ c.claims = <<>>
            /\ ~InRan("RateLimiter") /\ ~InRan("Auth") /\ ~InRan("Handler"))
    /\ [][(InRan("Cancellation") /\ c.reqCtx = "Canceled" /\ FirstWrite)
            => c'.w.sent = StatusServiceUnavailable]_vars
    /\ [][(InRan("Timeout") /\ c.reqCtx = "nil" /\ c.tctx = "DeadlineExceeded"
           /\ FirstWrite)
            => c'.w.sent = StatusGatewayTimeout]_vars

\* the structs some entry of the map or some running check points to
Live == {visitors[ip] : ip \in ClientIPs} \cup Held

\* C23: under every interleaving of checks and sweeps and for every limit
\* L >= 0, every visitor record, in the map or still held by a running check,
\* has 0 <= count <= L.
C23_CountBounded ==
    \A v \in Live \ {0} : store[v].count >= 0 /\ store[v].count <= requests

\* C23 witness: a running check holds a record that the sweep has removed from
\* the map and that is full, with a limit of at least one
C23_Witness ==
    \E p \in Procs :
        /\ procs[p].pc = "check"
        /\ procs[p].v \notin {visitors[ip] : ip \in ClientIPs}
        /\ requests >= 1
        /\ store[procs[p].v].count = requests

\* request p takes a step of its admission check in this transition
Steps(p) == procs'[p] # procs[p]

\* C24: an admission check for key k neither creates, changes nor removes the
\* record of another key, in the map or held by another running check, and a
\* check that rejects leaves the count of k's record as it was.
C24_CheckFrame ==
    [][\A p \in Procs :
        Steps(p) =>
            LET k == procs'[p].ip
            IN  /\ \A ip \in ClientIPs \ {k} :
                    /\ visitors'[ip] = visitors[ip]
                    /\ visitors[ip] # 0 => store'[visitors[ip]] = store[visitors[ip]]
                /\ \A q \in Procs :
                    (procs[q].pc = "check" /\ procs[q].ip # k)
                        => store'[procs[q].v] = store[procs[q].v]
                /\ (procs'[p].out = "rejected" /\ visitors[k] # 0)
                        => /\ visitors'[k] = visitors[k]
                           /\ store'[visitors[k]].count = store[visitors[k]].count]_vars

\* C24 witness: a check has just rejected a request of one key while the map
\* holds a counted record of the other key
C24_Witness ==
    \E p \in Procs, ip \in ClientIPs :
        /\ procs[p].pc = "idle"
        /\ procs[p].out = "rejected"
        /\ ip # procs[p].ip
        /\ visitors[procs[p].ip] # 0
        /\ visitors[ip] # 0
        /\ store[visitors[ip]].count >= 1

\* the sweep removes the record of ip in this transition
Evicts(ip) == visitors[ip] # 0 /\ visitors'[ip] = 0

\* C25: a sweep never removes the record of a key that made a request less
\* than W ago, and right after a sweep the map holds no record of a key whose
\* last request is more than W old.
C25_EvictsInactiveOnly ==
    [][/\ \A ip \in ClientIPs : Evicts(ip) => now - shadow[ip].lastReq >= window
       /\ (\E ip \in ClientIPs : Evicts(ip)) =>
            \A ip \in ClientIPs :
                visitors'[ip] # 0 => now - shadow[ip].lastReq <= window]_vars

\* request p runs its locked check in this transition
Decides(p) == procs[p].pc = "check" /\ procs'[p].pc = "idle"

\* C26: whatever the points at which sweeps ran, each request is admitted or
\* rejected as the limiter that never sweeps admits or rejects it.
C26_SweepTransparent ==
    [][\A p \in Procs :
        Decides(p) =>
            (admission(procs[p].v).admit <=> RefAdmission(procs[p].ip).admit)]_vars

\* C27: an OPTIONS request is answered by the CORS stage with 204 and the CORS
\* headers and no later stage runs for it: not the Logger, not the limiter
\* (no quota is used), not authentication or authorization, not a handler.
C27_PreflightStopsAtCORS ==
    (c.method = "OPTIONS" /\ c.ran # <<>>) =>
        /\ c.ran = <<"CORS">>
        /\ c.pc = "done"
        /\ c.aborted
        /\ c.w.written
        /\ c.w.sent = StatusNoContent
        /\ CORSHeaders \subseteq c.w.hdrs
        /\ c.w.body = <<>>
        /\ c.rl = "none"
        /\ c.v = 0
        /\ c.claims = <<>>
        /\ c.calls = 0

\* C27 witness: a preflight request to a route that asks for a role is over,
\* answered 204
C27_Witness ==
    /\ c.method = "OPTIONS"
    /\ c.route.handler = "CreateProduct"
    /\ c.pc = "done"
    /\ c.w.sent = StatusNoContent

\* C28: a request that the Logger stage passed on and that is over has exactly
\* one log entry, and the status in it is the status sent to the client, whatever
\* happened downstream (429, 401/403, 503/504, a panic answered 500).
C28_LoggedOnce ==
    (c.pc = "done" /\ InRan("Logger") /\ InRan("Cancellation")) => c.log = <<c.w.sent>>

\* the handler function writes its answer in this transition
HandlerAnswers == c.pc # "written" /\ c'.pc = "written"

\* C29: the handler of a withAuth route runs only with the claims of a verified
\* token in the context, the handler of a withRole route only when their role
\* is allowed, and such a handler never answers from its own 401
\* "unauthorized" branch.
C29_HandlerNeverUnauthorized ==
    /\ []((InRan("Handler") /\ c.route.auth # "none") =>
            /\ VerifiedBy(c.claims, c.authHeader)
            /\ c.route.auth = "role" => UserClaims(c).Role \in AllowedRoles)
    /\ [][(c.route.auth # "none" /\ HandlerAnswers) =>
            c'.w.body[Len(c'.w.body)] #
                [code |-> StatusUnauthorized, message |-> "unauthorized"]]_vars

====
